---- MODULE Spec2Model ----
(***************************************************************************)
(* The job lifecycle engine of queuectl: the jobs table of queue/db.py,    *)
(* the worker loop of queue/worker.py and the CLI operations that reach    *)
(* the store (enqueue, dlq retry, config set).                             *)
(*                                                                         *)
(* Every SQL statement is one atomic step (each runs in its own SQLite     *)
(* transaction: Python's sqlite3 opens a transaction only in front of an   *)
(* INSERT/UPDATE, never in front of a SELECT), so the SELECT and the       *)
(* UPDATE of fetch_and_lock_job are two steps that other workers and CLI   *)
(* processes interleave with.                                              *)
(*                                                                         *)
(* Time: timestamps are kept as offsets, in seconds, from the current      *)
(* instant `now`, which is therefore always 0.  Tick lets one second pass: *)
(* every stored offset decreases by one.  The code only ever compares a    *)
(* stored next_retry_at against now, so an offset <= 0 (the past) is kept  *)
(* as 0.  created_at is only ever compared with other created_at values    *)
(* (ORDER BY), so it is kept as the rank of the insertion instant.         *)
(* updated_at is written but never read by the engine and is left out.     *)
(***************************************************************************)
EXTENDS Integers, FiniteSets, Sequences, TLC

\* ---------------------------------------------------------------- bounds
NumWorkers == 2          \* worker threads, each with its own uuid
NumJobs == 2             \* job ids a client may name
MaxRetriesArg == 2       \* largest max_retries a client passes explicitly
MaxBase == 1             \* largest backoff_base a client configures
MaxStopDepth == 2        \* stop_workers calls nested on the main thread

\* ------------------------------------------------------- program constants
DefaultBackoffBase == 2  \* get_config("backoff_base", 2)

Workers == 1..NumWorkers
JobIds == 1..NumJobs
\* "false" never exits 0; "flaky" exits 0 on some runs and non-zero on others.
Commands == {"false", "flaky"}
\* the max_retries a client passes (it passes one: the default of 3 that
\* enqueue fills in otherwise is the same row as an explicit 3)
MaxRetriesArgs == 1..MaxRetriesArg
Bases == 1..MaxBase

\* SQL NULL / Python None: a nullable value is <<>> or <<v>>.
NULL == <<>>
Some(v) == <<v>>
Val(x) == x[1]

\* The current instant, the origin of the time axis.
now == 0

VARIABLES
    jobs,         \* the jobs table: a set of rows
    config,       \* the config table, key "backoff_base": NULL or Some(value)
    pc,           \* pc[w]: where worker w is in Worker.start
    job,          \* job[w]: the dict fetch_and_lock_job built from the selected row
    next_retry,   \* next_retry[w]: the local of _handle_failure, NULL until computed
    stop_event,   \* stop_event[w]: the threading.Event of worker w is set
    mgr           \* the WorkerManager and its main thread: workers (the lists
                  \* self.workers / self.worker_threads), calls (the stack of
                  \* stop_workers calls in progress), exited (sys.exit ran)

vars == <<jobs, config, pc, job, next_retry, stop_event, mgr>>

\* ------------------------------------------------------------ pure helpers
RECURSIVE Pow(_, _)
\* Python's base ** n on non-negative integers
Pow(b, n) == IF n = 0 THEN 1 ELSE b * Pow(b, n - 1)

Max0(n) == IF n < 0 THEN 0 ELSE n

\* the row with the given id, when there is exactly such a row
RowsOf(id) == {r \in jobs : r.id = id}
Exists(id) == RowsOf(id) # {}
Row(id) == CHOOSE r \in jobs : r.id = id

\* ------------------------------------------------------------- Database
\* An UPDATE jobs SET ... WHERE ... rewrites every row the WHERE matches and
\* leaves the others: {IF <where> THEN <set> ELSE r : r \in jobs}.

\* the rank of the latest insertion instant so far
LastCreated == IF jobs = {} THEN 0
               ELSE CHOOSE t \in {r.created_at : r \in jobs} :
                        \A r \in jobs : r.created_at <= t

NewRow(id, command, max_retries, t) ==
    [id |-> id, command |-> command, state |-> "pending", attempts |-> 0,
     max_retries |-> max_retries, created_at |-> t,
     worker_id |-> NULL, last_error |-> NULL, next_retry_at |-> NULL]

\* (mutant) the INSERT without the PRIMARY KEY constraint
enqueue_NoPrimaryKey(id, command, max_retries, t) ==
    jobs \cup {NewRow(id, command, max_retries, t)}

\* INSERT INTO jobs: id is the PRIMARY KEY, a second row with the id raises
\* IntegrityError, which enqueue turns into False.
enqueue_ok(id) == ~Exists(id)
enqueue(id, command, max_retries, t) ==
    IF enqueue_ok(id) THEN jobs \cup {NewRow(id, command, max_retries, t)}
    ELSE jobs

\* (mutant) the UPDATE without its WHERE id = ?
update_job_state_NoWhere(job_id, state, error, worker_id, increment_attempts) ==
    {[r EXCEPT !.state = state,
               !.worker_id = worker_id,
               !.last_error = error,
               !.attempts = IF increment_attempts THEN @ + 1 ELSE @] : r \in jobs}

\* update_job_state: state, worker_id and last_error are always written,
\* attempts only with increment_attempts; WHERE id = ?.
update_job_state(job_id, state, error, worker_id, increment_attempts) ==
    {IF r.id = job_id
     THEN [r EXCEPT !.state = state,
                    !.worker_id = worker_id,
                    !.last_error = error,
                    !.attempts = IF increment_attempts THEN @ + 1 ELSE @]
     ELSE r : r \in jobs}

\* The WHERE clause of the SELECT of fetch_and_lock_job.
Selectable(r) ==
    \/ r.state = "pending"
    \/ /\ r.state = "failed"
       /\ r.attempts < r.max_retries
       /\ (r.next_retry_at = NULL \/ Val(r.next_retry_at) <= now)

\* (mutant) the SELECT without its ORDER BY: any matching row
SelectFirst_Unordered == {r \in jobs : Selectable(r)}

\* ORDER BY created_at ASC LIMIT 1: the rows fetchone may return.
SelectFirst ==
    {r \in jobs : Selectable(r) /\
        \A q \in jobs : Selectable(q) => r.created_at <= q.created_at}

\* (mutant) the UPDATE of fetch_and_lock_job without worker_id = ?
LockRow_NoOwner(id, worker_id) ==
    {IF r.id = id /\ (r.state = "pending" \/ r.state = "failed")
     THEN [r EXCEPT !.state = "processing"]
     ELSE r : r \in jobs}

\* The UPDATE of fetch_and_lock_job.
LockRow(id, worker_id) ==
    {IF r.id = id /\ (r.state = "pending" \/ r.state = "failed")
     THEN [r EXCEPT !.state = "processing", !.worker_id = Some(worker_id)]
     ELSE r : r \in jobs}

set_next_retry(job_id, retry_at) ==
    {IF r.id = job_id
     THEN [r EXCEPT !.next_retry_at = Some(retry_at)]
     ELSE r : r \in jobs}

\* (mutant) move_to_dlq counting the move as one more attempt
move_to_dlq_Increment(job_id, error) ==
    update_job_state(job_id, "dead", error, NULL, TRUE)

move_to_dlq(job_id, error) ==
    update_job_state(job_id, "dead", error, NULL, FALSE)

\* (mutant) the UPDATE without attempts = 0
retry_dlq_job_KeepAttempts(job_id) ==
    {IF r.id = job_id /\ r.state = "dead"
     THEN [r EXCEPT !.state = "pending",
                    !.worker_id = NULL, !.last_error = NULL,
                    !.next_retry_at = NULL]
     ELSE r : r \in jobs}

\* (mutant) the UPDATE without AND state = 'dead'
retry_dlq_job_AnyState(job_id) ==
    {IF r.id = job_id
     THEN [r EXCEPT !.state = "pending", !.attempts = 0,
                    !.worker_id = NULL, !.last_error = NULL,
                    !.next_retry_at = NULL]
     ELSE r : r \in jobs}

\* UPDATE ... WHERE id = ? AND state = 'dead'
retry_dlq_job(job_id) ==
    {IF r.id = job_id /\ r.state = "dead"
     THEN [r EXCEPT !.state = "pending", !.attempts = 0,
                    !.worker_id = NULL, !.last_error = NULL,
                    !.next_retry_at = NULL]
     ELSE r : r \in jobs}

\* retry_dlq_job returns True unless sqlite3 raised.
retry_dlq_job_ret(job_id) == TRUE

get_config(default) == IF config = NULL THEN default ELSE Val(config)

\* ------------------------------------------------------------------ Init
NoJob == NULL

\* start_workers has started every worker; no stop has been asked for
InitManager ==
    /\ stop_event = [w \in Workers |-> FALSE]
    /\ mgr = [workers |-> Workers, calls |-> <<>>, exited |-> FALSE]

Init ==
    /\ jobs = {}
    /\ config = NULL
    /\ pc = [w \in Workers |-> "idle"]
    /\ job = [w \in Workers |-> NoJob]
    /\ next_retry = [w \in Workers |-> NULL]
    /\ InitManager

\* ------------------------------------------------------------ CLI actions
\* queuectl enqueue '{"id": .., "command": .., "max_retries": ..}'
Enqueue(id, command, max_retries) ==
    /\ jobs' = enqueue(id, command, max_retries, LastCreated + 1)
    /\ UNCHANGED <<config, pc, job, next_retry, stop_event, mgr>>

\* queuectl dlq retry <job_id>
RetryDLQ(job_id) ==
    /\ jobs' = retry_dlq_job(job_id)
    /\ UNCHANGED <<config, pc, job, next_retry, stop_event, mgr>>

\* queuectl config set backoff_base <value>
SetConfig(value) ==
    /\ config' = Some(value)
    /\ UNCHANGED <<jobs, pc, job, next_retry, stop_event, mgr>>

\* ---------------------------------------------------------- Worker steps
\* `while not self.stop_event.is_set()` finds the event clear, then
\* fetch_and_lock_job, the SELECT: no row -> return None, the loop sleeps.
Select(w) ==
    /\ pc[w] = "idle"
    /\ ~stop_event[w]
    /\ IF SelectFirst = {}
       THEN /\ pc' = [pc EXCEPT ![w] = "sleep"]
            /\ UNCHANGED job
       ELSE \E r \in SelectFirst :
            /\ job' = [job EXCEPT ![w] =
                   Some([id |-> r.id, command |-> r.command,
                         attempts |-> r.attempts, max_retries |-> r.max_retries])]
            /\ pc' = [pc EXCEPT ![w] = "lock"]
    /\ UNCHANGED <<jobs, config, next_retry, stop_event, mgr>>

\* time.sleep(1) returns, back to the top of the loop
Wake(w) ==
    /\ pc[w] = "sleep"
    /\ pc' = [pc EXCEPT ![w] = "idle"]
    /\ UNCHANGED <<jobs, config, job, next_retry, stop_event, mgr>>

\* fetch_and_lock_job, the UPDATE and `return job`
Lock(w) ==
    /\ pc[w] = "lock"
    /\ jobs' = LockRow(Val(job[w]).id, w)
    /\ pc' = [pc EXCEPT ![w] = "run"]
    /\ UNCHANGED <<config, job, next_retry, stop_event, mgr>>

\* the exit statuses subprocess.run may report for a command
Outcomes(command) ==
    IF command = "false" THEN {1} ELSE {0, 1}

\* the text _process_job hands to _handle_failure
ErrorText(returncode) == IF returncode = 1 THEN "Command failed with exit code 1"
                         ELSE "Command failed"

\* _process_job: subprocess.run exits 0, update_job_state(state="completed",
\* worker_id=None); the loop clears current_job
Complete(w) ==
    /\ pc[w] = "run"
    /\ 0 \in Outcomes(Val(job[w]).command)
    /\ jobs' = update_job_state(Val(job[w]).id, "completed", NULL, NULL, FALSE)
    /\ pc' = [pc EXCEPT ![w] = "idle"]
    /\ job' = [job EXCEPT ![w] = NoJob]
    /\ UNCHANGED <<config, next_retry, stop_event, mgr>>

\* _handle_failure: the test on the attempts of the dict the worker holds
ShouldMoveToDlq(j) == j.attempts + 1 >= j.max_retries

\* _process_job: subprocess.run exits non-zero; _handle_failure:
\* update_job_state(state="failed", increment_attempts=True), then the DLQ test
Fail(w) ==
    /\ pc[w] = "run"
    /\ 1 \in Outcomes(Val(job[w]).command)
    /\ jobs' = update_job_state(Val(job[w]).id, "failed", Some(ErrorText(1)), NULL, TRUE)
    /\ pc' = [pc EXCEPT ![w] = IF ShouldMoveToDlq(Val(job[w])) THEN "dlq" ELSE "backoff"]
    /\ UNCHANGED <<config, job, next_retry, stop_event, mgr>>

\* _handle_failure: move_to_dlq, return
MoveToDlq(w) ==
    /\ pc[w] = "dlq"
    /\ jobs' = move_to_dlq(Val(job[w]).id, Some(ErrorText(1)))
    /\ pc' = [pc EXCEPT ![w] = "idle"]
    /\ job' = [job EXCEPT ![w] = NoJob]
    /\ UNCHANGED <<config, next_retry, stop_event, mgr>>

\* _handle_failure: delay = base ** (job["attempts"] + 1)
Delay(base, j) == Pow(base, j.attempts + 1)

\* _handle_failure: get_config, delay, next_retry = now + delay
Backoff(w) ==
    /\ pc[w] = "backoff"
    /\ next_retry' = [next_retry EXCEPT ![w] =
           Some(now + Delay(get_config(DefaultBackoffBase), Val(job[w])))]
    /\ pc' = [pc EXCEPT ![w] = "sched"]
    /\ UNCHANGED <<jobs, config, job, stop_event, mgr>>

\* _handle_failure: set_next_retry
ScheduleRetry(w) ==
    /\ pc[w] = "sched"
    /\ jobs' = set_next_retry(Val(job[w]).id, Val(next_retry[w]))
    /\ pc' = [pc EXCEPT ![w] = "idle"]
    /\ job' = [job EXCEPT ![w] = NoJob]
    /\ next_retry' = [next_retry EXCEPT ![w] = NULL]
    /\ UNCHANGED <<config, stop_event, mgr>>

\* ------------------------------------------------------------------ time
Earlier(x) == IF x = NULL THEN NULL ELSE Some(Max0(Val(x) - 1))

Future(x) == x # NULL /\ Val(x) > now

\* One second passes: every timestamp still ahead of now comes one closer.
Tick ==
    /\ \/ \E r \in jobs : Future(r.next_retry_at)
       \/ \E w \in Workers : Future(next_retry[w])
    /\ jobs' = {[r EXCEPT !.next_retry_at = Earlier(@)] : r \in jobs}
    /\ next_retry' = [w \in Workers |-> Earlier(next_retry[w])]
    /\ UNCHANGED <<config, pc, job, stop_event, mgr>>

\* ------------------------------------------------------------------ Next
WorkerStep(w) ==
    \/ Select(w)
    \/ Wake(w)
    \/ Lock(w)
    \/ Complete(w)
    \/ Fail(w)
    \/ MoveToDlq(w)
    \/ Backoff(w)
    \/ ScheduleRetry(w)

Next ==
    \/ \E id \in JobIds, command \in Commands,
          max_retries \in MaxRetriesArgs :
            Enqueue(id, command, max_retries)
    \/ \E id \in JobIds : RetryDLQ(id)
    \/ \E value \in Bases : SetConfig(value)
    \/ \E w \in Workers : WorkerStep(w)
    \/ Tick

Spec == Init /\ [][Next]_vars

\* ------------------------------------------------------ fair scheduling
\* The end-to-end scenarios of run_demo.py / fix_demo.py: the jobs are
\* enqueued, then the workers are started and nothing else calls the store.
\* Threads are scheduled fairly and time passes.
InitEnqueued ==
    /\ \E c \in [JobIds -> Commands], m \in [JobIds -> MaxRetriesArgs] :
           jobs = {NewRow(id, c[id], m[id], id) : id \in JobIds}
    /\ config = NULL
    /\ pc = [w \in Workers |-> "idle"]
    /\ job = [w \in Workers |-> NoJob]
    /\ next_retry = [w \in Workers |-> NULL]
    /\ InitManager

NextWorkers ==
    \/ \E w \in Workers : WorkerStep(w)
    \/ Tick

FairSpec ==
    /\ InitEnqueued
    /\ [][NextWorkers]_vars
    /\ \A w \in Workers : WF_vars(WorkerStep(w))
    /\ WF_vars(Tick)

\* ------------------------------------------------------------------ stop
\* `while not self.stop_event.is_set()`: the only place the loop reads the
\* event, between two iterations
AtLoopTest_Preempt(w) == pc[w] \in {"idle", "run"}

AtLoopTest(w) == pc[w] = "idle"

\* the loop test finds the event set: Worker.start returns, the thread ends
Exit(w) ==
    /\ AtLoopTest(w)
    /\ stop_event[w]
    /\ pc' = [pc EXCEPT ![w] = "stopped"]
    /\ UNCHANGED <<jobs, config, job, next_retry, stop_event, mgr>>

\* (mutant) a join that does not wait
Joined_NoWait(w) == TRUE

\* thread.join() returns once the thread of worker w has ended
Joined(w) == pc[w] = "stopped"

\* the stop_workers call the main thread is in, and the next list element
Top == mgr.calls[Len(mgr.calls)]
First(s) == CHOOSE w \in s : \A v \in s : w <= v
Frame(handler) == [pc |-> "signal", todo |-> mgr.workers, handler |-> handler]

\* stop_workers() called by the program: `for worker in self.workers` begins
StopCall ==
    /\ ~mgr.exited
    /\ mgr.calls = <<>>
    /\ mgr' = [mgr EXCEPT !.calls = Append(@, Frame(FALSE))]
    /\ UNCHANGED <<jobs, config, pc, job, next_retry, stop_event>>

\* A stop_workers call a signal has interrupted: _signal_handler ends in
\* sys.exit(0) and SystemExit unwinds through the call, so it never resumes
\* and what it was about to do no longer matters.
Interrupted == [pc |-> "interrupted", todo |-> {}, handler |-> FALSE]

\* SIGINT / SIGTERM: _signal_handler runs on the main thread, on top of
\* whatever it was doing, and calls stop_workers
Signal ==
    /\ ~mgr.exited
    /\ Len(mgr.calls) < MaxStopDepth
    /\ mgr' = [mgr EXCEPT !.calls =
                   Append([i \in 1..Len(@) |-> Interrupted], Frame(TRUE))]
    /\ UNCHANGED <<jobs, config, pc, job, next_retry, stop_event>>

\* worker.stop(): self.stop_event.set()
StopWorker ==
    /\ mgr.calls # <<>>
    /\ Top.pc = "signal" /\ Top.todo # {}
    /\ stop_event' = [stop_event EXCEPT ![First(Top.todo)] = TRUE]
    /\ mgr' = [mgr EXCEPT !.calls[Len(mgr.calls)].todo = @ \ {First(Top.todo)}]
    /\ UNCHANGED <<jobs, config, pc, job, next_retry>>

\* the first loop is over: `for thread in self.worker_threads` begins
StartJoin ==
    /\ mgr.calls # <<>>
    /\ Top.pc = "signal" /\ Top.todo = {}
    /\ mgr' = [mgr EXCEPT !.calls[Len(mgr.calls)] =
                   [@ EXCEPT !.pc = "join", !.todo = mgr.workers]]
    /\ UNCHANGED <<jobs, config, pc, job, next_retry, stop_event>>

\* thread.join() returns
Join ==
    /\ mgr.calls # <<>>
    /\ Top.pc = "join" /\ Top.todo # {}
    /\ Joined(First(Top.todo))
    /\ mgr' = [mgr EXCEPT !.calls[Len(mgr.calls)].todo = @ \ {First(Top.todo)}]
    /\ UNCHANGED <<jobs, config, pc, job, next_retry, stop_event>>

\* self.workers = []; self.worker_threads = []; stop_workers returns. In
\* _signal_handler sys.exit(0) follows: SystemExit unwinds the main thread.
StopReturn ==
    /\ mgr.calls # <<>>
    /\ Top.pc = "join" /\ Top.todo = {}
    /\ mgr' = IF Top.handler
              THEN [workers |-> {}, calls |-> <<>>, exited |-> TRUE]
              ELSE [mgr EXCEPT !.workers = {},
                               !.calls = SubSeq(@, 1, Len(@) - 1)]
    /\ UNCHANGED <<jobs, config, pc, job, next_retry, stop_event>>

ManagerStep == StopWorker \/ StartJoin \/ Join \/ StopReturn

WorkerLoop(w) == WorkerStep(w) \/ Exit(w)

NextStop ==
    \/ \E w \in Workers : WorkerLoop(w)
    \/ Tick
    \/ StopCall
    \/ Signal
    \/ ManagerStep

\* The first scenario of run_demo.py, with a stop: one job is enqueued and
\* the workers are started; the program may call stop_workers and signals
\* may arrive at any time.
InitStop ==
    /\ \E id \in JobIds, command \in Commands, max_retries \in MaxRetriesArgs :
           jobs = {NewRow(id, command, max_retries, 1)}
    /\ config = NULL
    /\ pc = [w \in Workers |-> "idle"]
    /\ job = [w \in Workers |-> NoJob]
    /\ next_retry = [w \in Workers |-> NULL]
    /\ InitManager

\* Threads, the main thread included, are scheduled fairly.
StopSpec ==
    /\ InitStop
    /\ [][NextStop]_vars
    /\ \A w \in Workers : WF_vars(WorkerLoop(w))
    /\ WF_vars(ManagerStep)

\* ----------------------------------------------------------------- crash
\* The worker dies (its process is killed) wherever it is in its loop: it
\* takes no further step and what it held in memory is gone.
Crash(w) ==
    /\ pc[w] \notin {"crashed", "stopped"}
    /\ pc' = [pc EXCEPT ![w] = "crashed"]
    /\ job' = [job EXCEPT ![w] = NoJob]
    /\ next_retry' = [next_retry EXCEPT ![w] = NULL]
    /\ UNCHANGED <<jobs, config, stop_event, mgr>>

NextCrash ==
    \/ \E id \in JobIds, command \in Commands,
          max_retries \in MaxRetriesArgs :
            Enqueue(id, command, max_retries)
    \/ \E id \in JobIds : RetryDLQ(id)
    \/ \E w \in Workers : WorkerStep(w)
    \/ \E w \in Workers : Crash(w)
    \/ Tick

\* The jobs are enqueued and the workers started; workers may die, clients
\* go on calling enqueue and dlq retry.
CrashSpec == InitEnqueued /\ [][NextCrash]_vars

\* ----------------------------------------------------------- store errors
\* sqlite3 raises (database locked, I/O error) in a statement of the worker.
\* A failed statement changes no row.

\* fetch_and_lock_job has no try: an error in its SELECT reaches the
\* `except Exception` of the loop, which logs and sleeps
SelectError(w) ==
    /\ pc[w] = "idle"
    /\ ~stop_event[w]
    /\ pc' = [pc EXCEPT ![w] = "sleep"]
    /\ UNCHANGED <<jobs, config, job, next_retry, stop_event, mgr>>

\* the same for its UPDATE or commit: the selected dict is dropped
LockError(w) ==
    /\ pc[w] = "lock"
    /\ pc' = [pc EXCEPT ![w] = "sleep"]
    /\ job' = [job EXCEPT ![w] = NoJob]
    /\ UNCHANGED <<jobs, config, next_retry, stop_event, mgr>>

\* update_job_state catches sqlite3.Error and returns False; _process_job
\* does not look at the result
CompleteError(w) ==
    /\ pc[w] = "run"
    /\ 0 \in Outcomes(Val(job[w]).command)
    /\ pc' = [pc EXCEPT ![w] = "idle"]
    /\ job' = [job EXCEPT ![w] = NoJob]
    /\ UNCHANGED <<jobs, config, next_retry, stop_event, mgr>>

\* the same in _handle_failure, which goes on to its DLQ test
FailError(w) ==
    /\ pc[w] = "run"
    /\ 1 \in Outcomes(Val(job[w]).command)
    /\ pc' = [pc EXCEPT ![w] = IF ShouldMoveToDlq(Val(job[w])) THEN "dlq" ELSE "backoff"]
    /\ UNCHANGED <<jobs, config, job, next_retry, stop_event, mgr>>

\* move_to_dlq returns False, _handle_failure returns
MoveToDlqError(w) ==
    /\ pc[w] = "dlq"
    /\ pc' = [pc EXCEPT ![w] = "idle"]
    /\ job' = [job EXCEPT ![w] = NoJob]
    /\ UNCHANGED <<jobs, config, next_retry, stop_event, mgr>>

\* set_next_retry catches sqlite3.Error and returns False
ScheduleRetryError(w) ==
    /\ pc[w] = "sched"
    /\ pc' = [pc EXCEPT ![w] = "idle"]
    /\ job' = [job EXCEPT ![w] = NoJob]
    /\ next_retry' = [next_retry EXCEPT ![w] = NULL]
    /\ UNCHANGED <<jobs, config, stop_event, mgr>>

StoreErrorStep(w) ==
    \/ SelectError(w)
    \/ LockError(w)
    \/ CompleteError(w)
    \/ FailError(w)
    \/ MoveToDlqError(w)
    \/ ScheduleRetryError(w)

WorkerLoopErr(w) == WorkerLoop(w) \/ StoreErrorStep(w)

NextErr ==
    \/ \E w \in Workers : WorkerLoopErr(w)
    \/ Tick
    \/ StopCall
    \/ Signal
    \/ ManagerStep

\* The stop scenario with a store that may fail in any statement of a
\* worker; threads are scheduled fairly.
ErrSpec ==
    /\ InitStop
    /\ [][NextErr]_vars
    /\ \A w \in Workers : WF_vars(WorkerLoopErr(w))
    /\ WF_vars(ManagerStep)

\* ================================================================ claims
\* The eligibility predicate as section 4.1 of the specification words it.
Eligible(r) ==
    \/ r.state = "pending"
    \/ /\ r.state = "failed"
       /\ r.attempts < r.max_retries
       /\ (r.next_retry_at = NULL \/ Val(r.next_retry_at) <= now)

\* worker w has been handed a job by fetch_and_lock_job and is executing it
Executing(w) == pc[w] = "run"

\* C1. Mutual exclusion: no job is returned to two workers for the same
\* execution, i.e. no two workers execute the same job at the same time.
C1_MutualExclusion ==
    \A w1, w2 \in Workers :
        (w1 # w2 /\ Executing(w1) /\ Executing(w2))
            => Val(job[w1]).id # Val(job[w2]).id

\* C2. Eligibility correctness: whenever fetch_and_lock_job returns a job
\* (its UPDATE step, after which the worker runs the job), the row of that
\* job is eligible at that moment: pending, or failed with attempts <
\* max_retries and no next_retry_at in the future.
C2_AcquireOnlyEligible ==
    [][\A w \in Workers :
          (pc[w] = "lock" /\ pc'[w] = "run") => Eligible(Row(Val(job[w]).id))]_vars

\* C3. DLQ threshold: a job whose command always fails never has more than
\* max_retries failed executions recorded, and when it is dead it has
\* exactly max_retries of them.
C3_DlqThreshold ==
    \A r \in jobs :
        r.command = "false" =>
            /\ r.attempts <= r.max_retries
            /\ (r.state = "dead" => r.attempts = r.max_retries)

\* C4. Forward progress: with fair workers and time passing, every enqueued
\* job eventually is completed or dead.
C4_Progress ==
    \A id \in JobIds :
        Exists(id) ~> (Row(id).state \in {"completed", "dead"})

\* C5. RetryFromDLQ on a dead job sets state = pending, attempts = 0 and
\* nulls worker_id, last_error and next_retry_at, whatever attempts was; the
\* job is eligible afterwards.
C5_RetryResets ==
    [][\A id \in JobIds :
          (Exists(id) /\ Row(id).state = "dead" /\ RetryDLQ(id)) =>
              /\ Row(id)' = [Row(id) EXCEPT !.state = "pending", !.attempts = 0,
                                            !.worker_id = NULL, !.last_error = NULL,
                                            !.next_retry_at = NULL]
              /\ Eligible(Row(id)')]_vars

\* C5 witness: a dead job with failed attempts has been retried: it is pending
\* with attempts = 0 while a worker still holds the dict it fetched when the
\* job had failed attempts (attempts only ever decreases through the retry).
C5_Witness ==
    \E w \in Workers :
        /\ job[w] # NoJob
        /\ Val(job[w]).attempts >= 1
        /\ Exists(Val(job[w]).id)
        /\ Row(Val(job[w]).id).state = "pending"
        /\ Row(Val(job[w]).id).attempts = 0
        /\ Row(Val(job[w]).id).last_error = NULL

\* C6. retry_dlq_job(id) returns true exactly when the job exists and is
\* dead, false for a missing id or any other state.
C6_RetryReturn ==
    \A id \in JobIds :
        retry_dlq_job_ret(id) = (Exists(id) /\ Row(id).state = "dead")

\* C7. There is at most one row per id, and enqueue with an id that exists
\* returns false and leaves the table, hence every field of the existing
\* row, as it was.
C7_EnqueueDuplicate ==
    /\ \A id \in JobIds : Cardinality(RowsOf(id)) <= 1
    /\ \A id \in JobIds, command \in Commands, max_retries \in MaxRetriesArgs :
           Exists(id) =>
               /\ ~enqueue_ok(id)
               /\ enqueue(id, command, max_retries, LastCreated + 1) = jobs

\* C7 witness: an id exists whose row has left pending and has failed
\* attempts, so a duplicate enqueue would have something to overwrite.
C7_Witness ==
    \E r \in jobs :
        /\ r.state \in {"processing", "failed", "dead"}
        /\ r.attempts >= 1
        /\ r.last_error # NULL
        /\ ~enqueue_ok(r.id)

\* C8. Backoff growth: when a failure is not moved to the DLQ, the delay the
\* worker schedules is backoff_base raised to the attempts count stored by
\* its Fail update.
C8_BackoffGrowth ==
    [][\A w \in Workers :
          (Fail(w) /\ pc'[w] = "backoff") =>
              Delay(get_config(DefaultBackoffBase), Val(job[w]))
                  = Pow(get_config(DefaultBackoffBase), Row(Val(job[w]).id)'.attempts)]_vars

\* C9. Idempotent Complete: Complete on a completed job leaves it completed,
\* Complete on any id changes no other row, adds or removes none, and
\* Complete on an id that does not exist changes nothing.
C9_CompleteIdempotent ==
    \A id \in JobIds :
        LET after == update_job_state(id, "completed", NULL, NULL, FALSE) IN
        /\ \A r \in jobs : r.id # id => r \in after
        /\ {r.id : r \in after} = {r.id : r \in jobs}
        /\ Cardinality(after) = Cardinality(jobs)
        /\ ~Exists(id) => after = jobs
        /\ (Exists(id) /\ Row(id).state = "completed") =>
               \A r \in after : r.id = id => r.state = "completed"

\* C9 witness: a worker is about to call Complete on a job that another
\* worker has already completed, while a second job is in the table.
C9_Witness ==
    \E w \in Workers :
        /\ Executing(w)
        /\ 0 \in Outcomes(Val(job[w]).command)
        /\ Row(Val(job[w]).id).state = "completed"
        /\ \E r \in jobs : r.id # Val(job[w]).id /\ r.state # "completed"

StopStep == mgr' # mgr \/ stop_event' # stop_event

C12_StopBarrier ==
    /\ []((mgr.workers = {} \/ mgr.exited) =>
              \A w \in Workers : stop_event[w] /\ pc[w] = "stopped")
    /\ [][\A w \in Workers :
             pc[w] = "stopped" => (pc'[w] = "stopped" /\ job'[w] = NoJob)]_vars
    /\ (mgr.calls # <<>>) ~> (mgr.calls = <<>>)
    /\ (Len(mgr.calls) = 2) ~> mgr.exited

\* C12 witness: the signal handler has called stop_workers on top of a call
\* in progress, and this second call has joined every worker and is about to
\* return.
C12_Witness ==
    /\ Len(mgr.calls) = 2
    /\ Top.pc = "join" /\ Top.todo = {}
    /\ \A w \in Workers : pc[w] = "stopped"

\* C13. Ownership marker: in every reachable state a job's worker_id is
\* non-null if and only if its state is processing.
C13_OwnerIffProcessing ==
    \A r \in jobs : (r.worker_id # NULL) <=> (r.state = "processing")

\* C13 witness: one job is processing under a worker's id while another
\* one has been released by a failure and carries no worker_id.
C13_Witness ==
    \E r, q \in jobs :
        /\ r.state = "processing" /\ r.worker_id # NULL /\ r.attempts >= 1
        /\ q.state = "failed" /\ q.worker_id = NULL

\* C14. Retry schedule scope: in every reachable state a job whose
\* next_retry_at is non-null is in state failed.
C14_NextRetryOnlyFailed ==
    \A r \in jobs : r.next_retry_at # NULL => r.state = "failed"

\* the step is a failed execution of job id: some worker's Fail
FailedExecution(id) ==
    \E w \in Workers :
        /\ pc[w] = "run" /\ pc'[w] \in {"dlq", "backoff"}
        /\ Val(job[w]).id = id

\* C15. attempts is monotone and counts failed executions: a job's attempts
\* never decreases except when RetryFromDLQ resets it to 0 (a step of no
\* worker that takes the job from dead to pending), every failed execution
\* of the job increases it by exactly 1, and no other step (Acquire,
\* Complete, ScheduleRetry, MoveToDLQ, Enqueue) changes it.
C15_AttemptsCount ==
    [][\A r \in jobs :
          LET after == CHOOSE q \in jobs' : q.id = r.id IN
          /\ \E q \in jobs' : q.id = r.id
          /\ after.attempts < r.attempts =>
                 /\ pc' = pc
                 /\ r.state = "dead" /\ after.state = "pending"
                 /\ after.attempts = 0
          /\ FailedExecution(r.id) => after.attempts = r.attempts + 1
          /\ ~FailedExecution(r.id) => after.attempts <= r.attempts]_vars

\* C15 witness: two failed executions of a job have been counted and the
\* move to the DLQ has kept the count.
C15_Witness ==
    \E r \in jobs :
        r.state = "dead" /\ r.attempts = 2 /\ r.max_retries = 2

\* C16. Acquire's return means ownership: whenever fetch_and_lock_job
\* returns job J to worker W (its UPDATE has run and its return statement is
\* reached), the row of J is processing with worker_id = W.
C16_ReturnMeansOwnership ==
    [][\A w \in Workers :
          Lock(w) =>
              /\ Row(Val(job[w]).id)'.state = "processing"
              /\ Row(Val(job[w]).id)'.worker_id = Some(w)]_vars

\* C17. Backoff is respected across workers: a job that has just failed with
\* attempts < max_retries is not acquirable before its backoff delay has
\* elapsed; in particular not right after the Fail update of the failing
\* worker, when no time has passed and its ScheduleRetry is still to come.
C17_BackoffRespected ==
    [][\A w \in Workers :
          (Fail(w) /\ Row(Val(job[w]).id)'.attempts < Row(Val(job[w]).id)'.max_retries)
              => ~Selectable(Row(Val(job[w]).id)')]_vars

\* C18. RetryFromDLQ on a job that is not dead, or on a missing id, mutates
\* nothing: the table after the call is the table before it.
C18_RetryNotDeadNoop ==
    \A id \in JobIds :
        ~(Exists(id) /\ Row(id).state = "dead") => retry_dlq_job(id) = jobs

\* C18 witness: a job is processing with failed attempts, a last_error and
\* a next_retry_at, and another id is still missing: a retry of either
\* would have something to reset or nothing to find.
C18_Witness ==
    /\ \E r \in jobs :
           /\ r.state = "processing" /\ r.attempts >= 1
           /\ r.last_error # NULL /\ r.next_retry_at # NULL
    /\ \E id \in JobIds : ~Exists(id)

\* C19. Dead is terminal unless explicitly retried: once a job is dead, its
\* state, attempts and last_error change only through RetryFromDLQ (a step
\* of no worker that makes it pending with attempts 0 and no last_error);
\* no worker step changes them.
C19_DeadTerminal ==
    [][\A r \in jobs :
          r.state = "dead" =>
              LET after == CHOOSE q \in jobs' : q.id = r.id IN
              \/ /\ after.state = "dead"
                 /\ after.attempts = r.attempts
                 /\ after.last_error = r.last_error
              \/ /\ pc' = pc
                 /\ jobs' = retry_dlq_job(r.id)]_vars

\* C20. Complete changes only state (to completed) and worker_id (to null)
\* of the target job: attempts, last_error and next_retry_at are left as
\* they were, and so is every other job.
C20_CompleteFrame ==
    [][\A w \in Workers :
          Complete(w) =>
              jobs' = {IF r.id = Val(job[w]).id
                       THEN [r EXCEPT !.state = "completed", !.worker_id = NULL]
                       ELSE r : r \in jobs}]_vars

\* C23. Completed is terminal: once a job is completed, no step changes its
\* state, attempts or worker_id, and no worker is handed it for execution
\* (fetch_and_lock_job returns it), not even one that selected it earlier.
C23_CompletedTerminal ==
    [][\A r \in jobs :
          r.state = "completed" =>
              LET after == CHOOSE q \in jobs' : q.id = r.id IN
              /\ after.state = "completed"
              /\ after.attempts = r.attempts
              /\ after.worker_id = r.worker_id
              /\ \A w \in Workers :
                    ~(pc[w] = "lock" /\ pc'[w] = "run" /\ Val(job[w]).id = r.id)]_vars

\* C24. Attempt ceiling: in every reachable state every job (all are
\* enqueued with max_retries >= 1) has attempts <= max_retries.
C24_AttemptsCeiling ==
    \A r \in jobs : r.max_retries >= 1 => r.attempts <= r.max_retries

\* no worker holds job id: nobody is executing it or handling its failure
AtRest(id) == \A w \in Workers : job[w] = NoJob \/ Val(job[w]).id # id

\* C25. The DLQ decision agrees with the stored row: when the workers have
\* finished handling a job's failures, it is not left in state failed with
\* stored attempts >= max_retries, and it is dead only with attempts >=
\* max_retries.
C25_DlqDecisionAgrees ==
    \A r \in jobs :
        AtRest(r.id) =>
            /\ ~(r.state = "failed" /\ r.attempts >= r.max_retries)
            /\ r.state = "dead" => r.attempts >= r.max_retries

\* C21. Orphaned processing jobs stay stuck: a job that is processing under
\* the id of a worker that has died stays processing under that id at
\* every later step: no other worker takes it over or writes to it and no
\* engine operation requeues it.
C21_OrphanStaysStuck ==
    [][\A r \in jobs, w \in Workers :
          (r.state = "processing" /\ r.worker_id = Some(w) /\ pc[w] = "crashed") =>
              LET after == CHOOSE q \in jobs' : q.id = r.id IN
              after.state = "processing" /\ after.worker_id = Some(w)]_vars

\* the job row r is processing under worker w, and w no longer holds it
LeftProcessing(r, w) ==
    /\ r.state = "processing" /\ r.worker_id = Some(w)
    /\ (job[w] = NoJob \/ Val(job[w]).id # r.id)

\* C22. Store errors in a worker iteration: an error in Acquire sends the
\* worker to sleep and back to polling, never out of its loop, and the
\* worker still exits once stop is signalled; an error while recording an
\* outcome is not dropped, so no job is left processing under a worker that
\* has let go of it.
C22_StoreErrors ==
    /\ [][\A w \in Workers :
             (SelectError(w) \/ LockError(w)) => pc'[w] = "sleep"]_vars
    /\ \A w \in Workers : stop_event[w] ~> (pc[w] = "stopped")
    /\ [](\A r \in jobs, w \in Workers : ~LeftProcessing(r, w))
====
